---- MODULE Spec2Model ----
(***************************************************************************)
(* concat-files: a model of src/concat-files.py (work-directory search,    *)
(* codes mapping, header/request blocks) and of the assembler of           *)
(* src/scripts/concat-files.py.                                            *)
(*                                                                         *)
(* A path string is held as a record [dir, stem, ext]; PathString renders  *)
(* it and PathOf parses it.  A text is a sequence of string tokens, "\n"   *)
(* being the line terminator.  The file system is a function from the      *)
(* paths of the existing regular files to their texts.                     *)
(***************************************************************************)
EXTENDS Integers, Sequences, FiniteSets, TLC

VARIABLES
    fs,                 \* existing regular files (other than the output): path -> text
    argv,               \* the command line as parsed, never changed
    args,               \* the argparse namespace, which main() overwrites
    pc,                 \* position of the run
    exit_status,        \* Running, 0 or 1
    input_dir_abs,
    work_dirs,
    request_file_path,
    codes,
    mapping,
    input_files_raw,
    missing_codes,      \* the codes main() printed as missing
    input_files,
    outfile,            \* the output file: [exists, text]
    outfile0,           \* the output file before the run
    sections,           \* history: the sections combine_files has written
    resolve_bases,      \* history: the base_dirs of every resolve_file_paths call
    idx                 \* combine_files: number of input files already written

vars == <<fs, argv, args, pc, exit_status, input_dir_abs, work_dirs,
          request_file_path, codes, mapping, input_files_raw, missing_codes,
          input_files, outfile, outfile0, sections, resolve_bases, idx>>

-----------------------------------------------------------------------------
(* Bounds of the model *)

MaxDirs == 2
MaxFiles == 2

-----------------------------------------------------------------------------
(* Program constants *)

START_SEP == "<<<BLOCK_START>>>"
END_SEP == "<<<BLOCK_END>>>"
REQUEST_START_SEP == <<START_SEP, " ", "REQUEST_BODY">>
REQUEST_END_SEP == <<END_SEP, " ", "REQUEST_BODY">>
REQUEST_HEADER_START_SEP == <<START_SEP, " ", "REQUEST_HEADER">>
REQUEST_HEADER_END_SEP == <<END_SEP, " ", "REQUEST_HEADER">>
ERROR_APPEND_STRING ==
    <<"The REQUEST_BODY contains console output with the error that needs to be solved.", "\n">>
FILE_START_SEP == "<<<FILE_START>>>"
FILE_END_SEP == "<<<FILE_END>>>"

NL == "\n"
Running == "running"
EXIT_OK == "0"
EXIT_FAILURE == "1"

-----------------------------------------------------------------------------
(* Paths *)

Null == [dir |-> "", stem |-> "", ext |-> ""]
Path(d, s, e) == [dir |-> d, stem |-> s, ext |-> e]

CWD == "/cwd"
SCRIPT_DIR == "/sd"
ExistingDirs == {"/A", "/B", "/D", "/in", CWD, SCRIPT_DIR}

DEFAULT_CODES_MAPPING_FILE == Path("", "file-codes", ".txt")
DEFAULT_OUTPUT_FILE == Path("", "OUTPUT", ".txt")
DEFAULT_WORK_FILE == Path("", "work", ".txt")

PathString(p) ==
    IF p.dir = "" THEN p.stem \o p.ext
    ELSE IF p.stem = "" /\ p.ext = "" THEN p.dir
    ELSE p.dir \o "/" \o p.stem \o p.ext

Truthy(p) == PathString(p) # ""

isabs(p) == p.dir # ""
join(base, p) == IF isabs(p) THEN p ELSE [p EXCEPT !.dir = base]
abspath(p) == IF isabs(p) \/ ~Truthy(p) THEN p ELSE join(CWD, p)
splitext1(p) == p.ext
basename(p) == p.stem \o p.ext
AddTxt(p) == [p EXCEPT !.ext = p.ext \o ".txt"]

isfile(p) == Truthy(p) /\ abspath(p) \in DOMAIN fs
isdir(p) == p.stem = "" /\ p.ext = "" /\ p.dir \in ExistingDirs
ReadFile(p) == fs[abspath(p)]

-----------------------------------------------------------------------------
(* resolve_file_paths *)

\* A resolver that tries the ".txt" candidate of a directory before the plain one.
RECURSIVE SearchTxtFirst(_, _, _)
SearchTxtFirst(p, base_dirs, k) ==
    IF k > Len(base_dirs) THEN Null
    ELSE LET candidate == abspath(join(base_dirs[k], p))
             candidate_txt == AddTxt(candidate)
         IN  IF splitext1(p) = "" /\ isfile(candidate_txt) THEN candidate_txt
             ELSE IF isfile(candidate) THEN candidate
             ELSE SearchTxtFirst(p, base_dirs, k + 1)

RECURSIVE SearchBaseDirs(_, _, _)
SearchBaseDirs(p, base_dirs, k) ==
    IF k > Len(base_dirs) THEN Null
    ELSE LET candidate == abspath(join(base_dirs[k], p))
             candidate_txt == AddTxt(candidate)
         IN  IF isfile(candidate) THEN candidate
             ELSE IF splitext1(p) = "" /\ isfile(candidate_txt) THEN candidate_txt
             ELSE SearchBaseDirs(p, base_dirs, k + 1)

\* A resolver that gives up with no path when no base directory holds a match.
ResolveOneOrNull(p, base_dirs) ==
    IF isabs(p) /\ isfile(p) THEN p
    ELSE SearchBaseDirs(p, base_dirs, 1)

ResolveOne(p, base_dirs) ==
    IF isabs(p) /\ isfile(p) THEN p
    ELSE LET found == SearchBaseDirs(p, base_dirs, 1)
             abs_path == abspath(p)
         IN  IF found # Null THEN found
             ELSE IF splitext1(p) = "" /\ isfile(AddTxt(abs_path)) THEN AddTxt(abs_path)
             ELSE abs_path

resolve_file_paths(input_paths, base_dirs) ==
    [i \in 1..Len(input_paths) |-> ResolveOne(input_paths[i], base_dirs)]

-----------------------------------------------------------------------------
(* Texts *)

RECURSIVE Flatten(_)
Flatten(ts) == IF ts = <<>> THEN <<>> ELSE Head(ts) \o Flatten(Tail(ts))

read_text_from_file_or_string(value) ==
    IF Truthy(value) /\ isfile(value) THEN ReadFile(value)
    ELSE <<PathString(value)>>

\* The position of the end of the first line of a non-empty text.
LineEnd(text) ==
    LET nls == {i \in 1..Len(text) : text[i] = NL}
    IN  IF nls = {} THEN Len(text) ELSE CHOOSE i \in nls : \A j \in nls : i <= j

\* "for line in f": the lines of a text, each with its terminator.
RECURSIVE FileLines(_)
FileLines(text) ==
    IF text = <<>> THEN <<>>
    ELSE LET n == LineEnd(text)
         IN  <<SubSeq(text, 1, n)>> \o FileLines(SubSeq(text, n + 1, Len(text)))

Whitespace == {" ", NL}

RECURSIVE LStrip(_)
LStrip(line) ==
    IF line # <<>> /\ Head(line) \in Whitespace THEN LStrip(Tail(line)) ELSE line

RECURSIVE RStrip(_)
RStrip(line) ==
    IF line # <<>> /\ line[Len(line)] \in Whitespace
    THEN RStrip(SubSeq(line, 1, Len(line) - 1)) ELSE line

strip(line) == RStrip(LStrip(line))

RECURSIVE Str(_)
Str(tokens) == IF tokens = <<>> THEN "" ELSE Head(tokens) \o Str(Tail(tokens))

\* str.split(None, 1) of a stripped line: one part, or the first word and the rest.
Split1(line) ==
    LET ws == {i \in 1..Len(line) : line[i] \in Whitespace}
    IN  IF line = <<>> THEN <<>>
        ELSE IF ws = {} THEN <<Str(line)>>
        ELSE LET k == CHOOSE i \in ws : \A j \in ws : i <= j
             IN  <<Str(SubSeq(line, 1, k - 1)),
                   Str(LStrip(SubSeq(line, k, Len(line))))>>

-----------------------------------------------------------------------------
(* combine_files of src/concat-files.py *)

\* A header block whose note comes before the header content.
HeaderBlockNoteFirst(request_header, append_error) ==
    REQUEST_HEADER_START_SEP \o <<NL>>
        \o (IF append_error THEN <<NL>> \o ERROR_APPEND_STRING ELSE <<>>)
        \o read_text_from_file_or_string(request_header) \o <<NL>>
        \o REQUEST_HEADER_END_SEP \o <<NL, NL>>

HeaderBlock(request_header, append_error) ==
    REQUEST_HEADER_START_SEP \o <<NL>>
        \o read_text_from_file_or_string(request_header) \o <<NL>>
        \o (IF append_error THEN <<NL>> \o ERROR_APPEND_STRING ELSE <<>>)
        \o REQUEST_HEADER_END_SEP \o <<NL, NL>>

RequestBlock(path) ==
    REQUEST_START_SEP \o <<NL>> \o ReadFile(path) \o REQUEST_END_SEP \o <<NL, NL>>

Placeholder(file_path) ==
    <<"[Warning: file '", PathString(file_path), "' not found]", NL>>

\* A block labelled with the whole path instead of the base name.
FileBlockFullPath(file_path) ==
    <<START_SEP, " ", PathString(file_path), NL>>
        \o (IF isfile(file_path) THEN ReadFile(file_path) ELSE Placeholder(file_path))
        \o <<NL, END_SEP, " ", PathString(file_path), NL, NL>>

\* A block whose END line directly follows the content.
FileBlockNoNewline(file_path) ==
    <<START_SEP, " ", basename(file_path), NL>>
        \o (IF isfile(file_path) THEN ReadFile(file_path) ELSE Placeholder(file_path))
        \o <<END_SEP, " ", basename(file_path), NL, NL>>

FileBlock(file_path) ==
    <<START_SEP, " ", basename(file_path), NL>>
        \o (IF isfile(file_path) THEN ReadFile(file_path) ELSE Placeholder(file_path))
        \o <<NL, END_SEP, " ", basename(file_path), NL, NL>>

Section(kind, text) == [kind |-> kind, text |-> text]
Write(text) == outfile' = [outfile EXCEPT !.text = @ \o text]

CombineOpen ==
    /\ pc = "combine"
    /\ outfile' = [exists |-> TRUE, text |-> <<>>]
    /\ sections' = <<>>
    /\ idx' = 0
    /\ pc' = "c_header"
    /\ UNCHANGED <<fs, argv, args, exit_status, input_dir_abs, work_dirs,
                   request_file_path, codes, mapping, input_files_raw,
                   missing_codes, input_files, outfile0, resolve_bases>>

CombineHeader ==
    /\ pc = "c_header"
    /\ IF Truthy(args.header)
       THEN /\ Write(HeaderBlock(args.header, args.error))
            /\ sections' = Append(sections,
                    Section("header", HeaderBlock(args.header, args.error)))
       ELSE UNCHANGED <<outfile, sections>>
    /\ pc' = "c_request"
    /\ UNCHANGED <<fs, argv, args, exit_status, input_dir_abs, work_dirs,
                   request_file_path, codes, mapping, input_files_raw,
                   missing_codes, input_files, outfile0, resolve_bases, idx>>

CombineRequest ==
    /\ pc = "c_request"
    /\ IF Truthy(request_file_path) /\ isfile(request_file_path)
       THEN /\ Write(RequestBlock(request_file_path))
            /\ sections' = Append(sections,
                    Section("request", RequestBlock(request_file_path)))
       ELSE UNCHANGED <<outfile, sections>>
    /\ pc' = "c_files"
    /\ UNCHANGED <<fs, argv, args, exit_status, input_dir_abs, work_dirs,
                   request_file_path, codes, mapping, input_files_raw,
                   missing_codes, input_files, outfile0, resolve_bases, idx>>

CombineFile ==
    /\ pc = "c_files"
    /\ idx < Len(input_files)
    /\ Write(FileBlock(input_files[idx + 1]))
    /\ sections' = Append(sections, Section("file", FileBlock(input_files[idx + 1])))
    /\ idx' = idx + 1
    /\ UNCHANGED <<fs, argv, args, pc, exit_status, input_dir_abs, work_dirs,
                   request_file_path, codes, mapping, input_files_raw,
                   missing_codes, input_files, outfile0, resolve_bases>>

\* combine_files returns and main() prints its success line.
CombineReturn ==
    /\ pc = "c_files"
    /\ idx = Len(input_files)
    /\ pc' = "done"
    /\ exit_status' = EXIT_OK
    /\ UNCHANGED <<fs, argv, args, input_dir_abs, work_dirs,
                   request_file_path, codes, mapping, input_files_raw,
                   missing_codes, input_files, outfile, outfile0, sections,
                   resolve_bases, idx>>

Combine == CombineOpen \/ CombineHeader \/ CombineRequest \/ CombineFile
               \/ CombineReturn

-----------------------------------------------------------------------------
(* combine_files of src/scripts/concat-files.py *)

ScriptFileBlock(file_path) ==
    <<FILE_START_SEP, " ", basename(file_path), NL>>
        \o ReadFile(file_path)
        \o <<NL, FILE_END_SEP, " ", basename(file_path), NL, NL>>

ScriptCombineOpen ==
    /\ pc = "s_combine"
    /\ outfile' = [exists |-> TRUE, text |-> <<>>]
    /\ sections' = <<>>
    /\ idx' = 0
    /\ pc' = "s_files"
    /\ UNCHANGED <<fs, argv, args, exit_status, input_dir_abs, work_dirs,
                   request_file_path, codes, mapping, input_files_raw,
                   missing_codes, input_files, outfile0, resolve_bases>>

\* The START line is written before the input is opened; opening a file that
\* does not exist raises, which ends the run with the output as written so far.
ScriptCombineFile ==
    /\ pc = "s_files"
    /\ idx < Len(input_files)
    /\ LET file_path == input_files[idx + 1]
       IN  IF isfile(file_path)
           THEN /\ Write(ScriptFileBlock(file_path))
                /\ sections' = Append(sections,
                        Section("file", ScriptFileBlock(file_path)))
                /\ idx' = idx + 1
                /\ UNCHANGED <<pc, exit_status>>
           ELSE /\ Write(<<FILE_START_SEP, " ", basename(file_path), NL>>)
                /\ pc' = "s_raised"
                /\ exit_status' = EXIT_FAILURE
                /\ UNCHANGED <<sections, idx>>
    /\ UNCHANGED <<fs, argv, args, input_dir_abs, work_dirs,
                   request_file_path, codes, mapping, input_files_raw,
                   missing_codes, input_files, outfile0, resolve_bases>>

ScriptCombineReturn ==
    /\ pc = "s_files"
    /\ idx = Len(input_files)
    /\ pc' = "s_done"
    /\ exit_status' = EXIT_OK
    /\ UNCHANGED <<fs, argv, args, input_dir_abs, work_dirs,
                   request_file_path, codes, mapping, input_files_raw,
                   missing_codes, input_files, outfile, outfile0, sections,
                   resolve_bases, idx>>

ScriptCombine == ScriptCombineOpen \/ ScriptCombineFile \/ ScriptCombineReturn

-----------------------------------------------------------------------------
(* Helpers of main() in src/concat-files.py *)

\* The file names of the model in the order sorted() gives them.
SortedNames ==
    << <<"a", ".txt">>, <<"b", ".txt">>, <<"c", ".md">>, <<"codes", ".txt">>,
       <<"file-codes", ".txt">>, <<"files", ".txt">>, <<"header", ".txt">>,
       <<"req", ".txt">>, <<"request", ".txt">>, <<"work", ".txt">>, <<"x", "">>,
       <<"x", ".txt">>, <<"y", ".md">>, <<"z", ".txt">> >>

get_files_from_folder(folder_path) ==
    LET all == [i \in 1..Len(SortedNames) |->
                   Path(folder_path.dir, SortedNames[i][1], SortedNames[i][2])]
    IN  SelectSeq(all, isfile)

\* The path strings the model's files name, and the parse of a path string.
PathUniverse ==
    {Path("", "x", ""), Path("", "y", ".md"), Path("/A", "z", ".txt"),
     Path("", "nofile", "")}
PathOf(str) ==
    IF \E q \in PathUniverse : PathString(q) = str
    THEN CHOOSE q \in PathUniverse : PathString(q) = str
    ELSE Path("", str, "")

RECURSIVE MappingOfLines(_, _)
MappingOfLines(lines, acc) ==
    IF lines = <<>> THEN acc
    ELSE LET parts == Split1(strip(Head(lines)))
         IN  MappingOfLines(Tail(lines),
                 IF Len(parts) = 2
                 THEN [c \in DOMAIN acc \cup {parts[1]} |->
                          IF c = parts[1] THEN parts[2] ELSE acc[c]]
                 ELSE acc)

read_codes_mapping(mapping_file) == MappingOfLines(FileLines(ReadFile(mapping_file)), <<>>)

RECURSIVE CodesOfLines(_)
CodesOfLines(lines) ==
    IF lines = <<>> THEN <<>>
    ELSE LET code == Str(strip(Head(lines)))
         IN  (IF code # "" THEN <<code>> ELSE <<>>) \o CodesOfLines(Tail(lines))

read_codes_list(codes_list_file) == CodesOfLines(FileLines(ReadFile(codes_list_file)))

RECURSIVE DirsOfLines(_)
DirsOfLines(lines) ==
    IF lines = <<>> THEN <<>>
    ELSE LET d == Str(strip(Head(lines)))
         IN  (IF d # "" /\ d \in ExistingDirs THEN <<d>> ELSE <<>>)
                 \o DirsOfLines(Tail(lines))

read_work_dirs(work_file) ==
    IF isfile(work_file) THEN DirsOfLines(FileLines(ReadFile(work_file))) ELSE <<>>

RECURSIVE FirstRequestIn(_, _)
FirstRequestIn(dirs, k) ==
    IF k > Len(dirs) THEN Null
    ELSE IF isfile(Path(dirs[k], "request", ".txt")) THEN Path(dirs[k], "request", ".txt")
    ELSE FirstRequestIn(dirs, k + 1)

\* Whether find_request_file gets as far as resolving the request it was given.
RequestIsResolved(initial_request, input_dir) ==
    /\ ~(Truthy(input_dir) /\ isfile(join(input_dir.dir, Path("", "request", ".txt"))))
    /\ Truthy(initial_request)

find_request_file(initial_request, input_dir, dirs) ==
    IF Truthy(input_dir) /\ isfile(join(input_dir.dir, Path("", "request", ".txt")))
    THEN join(input_dir.dir, Path("", "request", ".txt"))
    ELSE IF Truthy(initial_request)
            /\ isfile(resolve_file_paths(<<initial_request>>, dirs)[1])
    THEN resolve_file_paths(<<initial_request>>, dirs)[1]
    ELSE FirstRequestIn(dirs, 1)

find_work_file(initial_work, input_dir, script_dir) ==
    IF Truthy(input_dir) /\ isfile(join(input_dir.dir, Path("", "work", ".txt")))
    THEN join(input_dir.dir, Path("", "work", ".txt"))
    ELSE IF Truthy(initial_work) /\ isfile(initial_work) THEN initial_work
    ELSE IF isfile(join(script_dir, Path("", "work", ".txt")))
    THEN join(script_dir, Path("", "work", ".txt"))
    ELSE initial_work

\* A lookup that stops collecting at the first missing code.
RECURSIVE LookupFirstMissing(_, _)
LookupFirstMissing(cs, m) ==
    IF cs = <<>> THEN [raw |-> <<>>, missing |-> <<>>]
    ELSE IF Head(cs) \in DOMAIN m
    THEN LET rest == LookupFirstMissing(Tail(cs), m)
         IN  [raw |-> <<PathOf(m[Head(cs)])>> \o rest.raw, missing |-> rest.missing]
    ELSE [raw |-> <<>>, missing |-> <<Head(cs)>>]

\* The loop over the codes: the raw paths of the mapped codes, the missing codes.
RECURSIVE LookupCodes(_, _)
LookupCodes(cs, m) ==
    IF cs = <<>> THEN [raw |-> <<>>, missing |-> <<>>]
    ELSE LET rest == LookupCodes(Tail(cs), m)
         IN  IF Head(cs) \in DOMAIN m
             THEN [raw |-> <<PathOf(m[Head(cs)])>> \o rest.raw, missing |-> rest.missing]
             ELSE [raw |-> rest.raw, missing |-> <<Head(cs)>> \o rest.missing]

RECURSIVE ExpandPaths(_)
ExpandPaths(paths) ==
    IF paths = <<>> THEN <<>>
    ELSE (IF isdir(Head(paths)) THEN get_files_from_folder(Head(paths))
          ELSE <<Head(paths)>>) \o ExpandPaths(Tail(paths))

-----------------------------------------------------------------------------
(* main() of src/concat-files.py *)

Exit(where) == pc' = where /\ exit_status' = EXIT_FAILURE

\* An input-dir step that keeps a header given on the command line.
MainInputDirKeepsHeader ==
    /\ pc = "start"
    /\ IF Truthy(args.input_dir)
       THEN /\ input_dir_abs' = abspath(args.input_dir)
            /\ IF isdir(abspath(args.input_dir))
               THEN /\ args' = [args EXCEPT
                          !.codes = join(abspath(args.input_dir).dir, Path("", "files", ".txt")),
                          !.header = IF Truthy(args.header) THEN args.header
                                     ELSE join(abspath(args.input_dir).dir,
                                               Path("", "header", ".txt"))]
                    /\ pc' = "find_work"
                    /\ UNCHANGED exit_status
               ELSE /\ Exit("exit_input_dir")
                    /\ UNCHANGED args
       ELSE /\ pc' = "find_work"
            /\ UNCHANGED <<args, input_dir_abs, exit_status>>
    /\ UNCHANGED <<fs, argv, work_dirs, request_file_path, codes, mapping,
                   input_files_raw, missing_codes, input_files, outfile, outfile0,
                   sections, resolve_bases, idx>>

MainInputDir ==
    /\ pc = "start"
    /\ IF Truthy(args.input_dir)
       THEN /\ input_dir_abs' = abspath(args.input_dir)
            /\ IF isdir(abspath(args.input_dir))
               THEN /\ args' = [args EXCEPT
                          !.codes = join(abspath(args.input_dir).dir, Path("", "files", ".txt")),
                          !.header = join(abspath(args.input_dir).dir,
                                          Path("", "header", ".txt"))]
                    /\ pc' = "find_work"
                    /\ UNCHANGED exit_status
               ELSE /\ Exit("exit_input_dir")
                    /\ UNCHANGED args
       ELSE /\ pc' = "find_work"
            /\ UNCHANGED <<args, input_dir_abs, exit_status>>
    /\ UNCHANGED <<fs, argv, work_dirs, request_file_path, codes, mapping,
                   input_files_raw, missing_codes, input_files, outfile, outfile0,
                   sections, resolve_bases, idx>>

MainFindWork ==
    /\ pc = "find_work"
    /\ args' = [args EXCEPT !.work = find_work_file(args.work, input_dir_abs, SCRIPT_DIR)]
    /\ pc' = "check_mode"
    /\ UNCHANGED <<fs, argv, exit_status, input_dir_abs, work_dirs, request_file_path,
                   codes, mapping, input_files_raw, missing_codes, input_files,
                   outfile, outfile0, sections, resolve_bases, idx>>

MainCheckMode ==
    /\ pc = "check_mode"
    /\ IF args.paths = <<>> /\ ~Truthy(args.codes)
       THEN Exit("exit_no_mode")
       ELSE pc' = "read_work" /\ UNCHANGED exit_status
    /\ UNCHANGED <<fs, argv, args, input_dir_abs, work_dirs, request_file_path,
                   codes, mapping, input_files_raw, missing_codes, input_files,
                   outfile, outfile0, sections, resolve_bases, idx>>

\* A step that leaves an empty work-directory list empty.
MainReadWorkDirsNoDefault ==
    /\ pc = "read_work"
    /\ work_dirs' = read_work_dirs(args.work)
    /\ pc' = "find_request"
    /\ UNCHANGED <<fs, argv, args, exit_status, input_dir_abs, request_file_path,
                   codes, mapping, input_files_raw, missing_codes, input_files,
                   outfile, outfile0, sections, resolve_bases, idx>>

MainReadWorkDirs ==
    /\ pc = "read_work"
    /\ work_dirs' = IF read_work_dirs(args.work) = <<>> THEN <<CWD>>
                    ELSE read_work_dirs(args.work)
    /\ pc' = "find_request"
    /\ UNCHANGED <<fs, argv, args, exit_status, input_dir_abs, request_file_path,
                   codes, mapping, input_files_raw, missing_codes, input_files,
                   outfile, outfile0, sections, resolve_bases, idx>>

MainFindRequest ==
    /\ pc = "find_request"
    /\ request_file_path' = find_request_file(args.request, input_dir_abs, work_dirs)
    /\ resolve_bases' = IF RequestIsResolved(args.request, input_dir_abs)
                        THEN resolve_bases \cup {work_dirs} ELSE resolve_bases
    /\ pc' = "inputs"
    /\ UNCHANGED <<fs, argv, args, exit_status, input_dir_abs, work_dirs,
                   codes, mapping, input_files_raw, missing_codes, input_files,
                   outfile, outfile0, sections, idx>>

MainCodesList ==
    /\ pc = "inputs"
    /\ Truthy(args.codes)
    /\ LET codes_list_path == resolve_file_paths(<<args.codes>>, work_dirs)[1]
       IN  IF ~isfile(codes_list_path)
           THEN /\ Exit("exit_codes_list")
                /\ UNCHANGED codes
           ELSE /\ codes' = read_codes_list(codes_list_path)
                /\ pc' = "mapping"
                /\ UNCHANGED exit_status
    /\ resolve_bases' = resolve_bases \cup {work_dirs}
    /\ UNCHANGED <<fs, argv, args, input_dir_abs, work_dirs, request_file_path,
                   mapping, input_files_raw, missing_codes, input_files,
                   outfile, outfile0, sections, idx>>

MainMapping ==
    /\ pc = "mapping"
    /\ LET mapping_file == IF Truthy(args.mapping) THEN args.mapping
                           ELSE DEFAULT_CODES_MAPPING_FILE
           mapping_path == resolve_file_paths(<<mapping_file>>, work_dirs)[1]
       IN  IF ~isfile(mapping_path)
           THEN /\ Exit("exit_mapping")
                /\ UNCHANGED mapping
           ELSE /\ mapping' = read_codes_mapping(mapping_path)
                /\ pc' = "lookup"
                /\ UNCHANGED exit_status
    /\ resolve_bases' = resolve_bases \cup {work_dirs}
    /\ UNCHANGED <<fs, argv, args, input_dir_abs, work_dirs, request_file_path,
                   codes, input_files_raw, missing_codes, input_files,
                   outfile, outfile0, sections, idx>>

\* A lookup step that has the output file opened before the codes are checked.
MainLookupOpensFirst ==
    /\ pc = "lookup"
    /\ LET found == LookupCodes(codes, mapping)
       IN  /\ input_files_raw' = found.raw
           /\ outfile' = [exists |-> TRUE, text |-> <<>>]
           /\ IF found.missing # <<>>
              THEN /\ missing_codes' = found.missing
                   /\ Exit("exit_missing_codes")
                   /\ UNCHANGED <<input_files, resolve_bases>>
              ELSE /\ input_files' = resolve_file_paths(found.raw, work_dirs)
                   /\ resolve_bases' = resolve_bases \cup {work_dirs}
                   /\ pc' = "combine"
                   /\ UNCHANGED <<missing_codes, exit_status>>
    /\ UNCHANGED <<fs, argv, args, input_dir_abs, work_dirs, request_file_path,
                   codes, mapping, outfile0, sections, idx>>

MainLookup ==
    /\ pc = "lookup"
    /\ LET found == LookupCodes(codes, mapping)
       IN  /\ input_files_raw' = found.raw
           /\ IF found.missing # <<>>
              THEN /\ missing_codes' = found.missing
                   /\ Exit("exit_missing_codes")
                   /\ UNCHANGED <<input_files, resolve_bases>>
              ELSE /\ input_files' = resolve_file_paths(found.raw, work_dirs)
                   /\ resolve_bases' = resolve_bases \cup {work_dirs}
                   /\ pc' = "combine"
                   /\ UNCHANGED <<missing_codes, exit_status>>
    /\ UNCHANGED <<fs, argv, args, input_dir_abs, work_dirs, request_file_path,
                   codes, mapping, outfile, outfile0, sections, idx>>

MainPaths ==
    /\ pc = "inputs"
    /\ ~Truthy(args.codes)
    /\ args.paths # <<>>
    /\ input_files_raw' = ExpandPaths(args.paths)
    /\ input_files' = resolve_file_paths(ExpandPaths(args.paths), work_dirs)
    /\ resolve_bases' = resolve_bases \cup {work_dirs}
    /\ pc' = "combine"
    /\ UNCHANGED <<fs, argv, args, exit_status, input_dir_abs, work_dirs,
                   request_file_path, codes, mapping, missing_codes,
                   outfile, outfile0, sections, idx>>

Main == MainInputDir \/ MainFindWork \/ MainCheckMode \/ MainReadWorkDirs
            \/ MainFindRequest \/ MainCodesList \/ MainMapping \/ MainLookup
            \/ MainPaths

-----------------------------------------------------------------------------
(* The resolver on its own: one call on drawn arguments *)

RDirs == {"/A", "/B", CWD}
RFiles == {Path(d, "x", e) : d \in RDirs, e \in {"", ".txt"}}
             \cup {Path(d, "y", ".md") : d \in {"/A", "/B"}}
             \cup {Path("/A", "y", ".md.txt")}
RIdentifiers == {Path("", "x", ""), Path("", "y", ".md"), Path("/B", "x", ""),
                 Path("/A", "y", ".md")}
SeqsUpTo(S, n) == UNION {[1..k -> S] : k \in 1..n}

NoArgs == [paths |-> <<>>, input_dir |-> Null, codes |-> Null, mapping |-> Null,
           output |-> DEFAULT_OUTPUT_FILE, request |-> Null,
           work |-> DEFAULT_WORK_FILE, header |-> Null, error |-> FALSE]
NoOutput == [exists |-> FALSE, text |-> <<>>]

InitResolve ==
    /\ \E S \in SUBSET RFiles : fs = [p \in S |-> <<"t">>]
    /\ \E p \in RIdentifiers : input_files_raw = <<p>>
    /\ work_dirs \in SeqsUpTo(RDirs, MaxDirs)
    /\ pc = "r_call"
    /\ argv = NoArgs /\ args = NoArgs
    /\ exit_status = Running
    /\ input_dir_abs = Null /\ request_file_path = Null
    /\ codes = <<>> /\ mapping = <<>> /\ missing_codes = <<>>
    /\ input_files = <<>>
    /\ outfile = NoOutput /\ outfile0 = NoOutput
    /\ sections = <<>> /\ resolve_bases = {} /\ idx = 0

ResolveCall ==
    /\ pc = "r_call"
    /\ input_files' = resolve_file_paths(input_files_raw, work_dirs)
    /\ resolve_bases' = resolve_bases \cup {work_dirs}
    /\ pc' = "r_done"
    /\ UNCHANGED <<fs, argv, args, exit_status, input_dir_abs, work_dirs,
                   request_file_path, codes, mapping, input_files_raw,
                   missing_codes, outfile, outfile0, sections, idx>>

SpecResolve == InitResolve /\ [][ResolveCall]_vars

\* The directory d holds a match for identifier p.
MatchIn(d, p) ==
    \/ isfile(join(d, p))
    \/ splitext1(p) = "" /\ isfile(AddTxt(join(d, p)))

\* The earliest position of base_dirs whose directory holds a match, 0 if none.
EarliestMatch(p, base_dirs) ==
    LET hits == {k \in 1..Len(base_dirs) : MatchIn(base_dirs[k], p)}
    IN  IF hits = {} THEN 0 ELSE CHOOSE k \in hits : \A j \in hits : k <= j

\* C2: an identifier that is not an existing absolute file resolves to the
\* match of the earliest base directory holding one, the plain candidate d/p
\* before d/p.txt within that directory, and an identifier with a file
\* extension never resolves to a ".txt" candidate.
C2_FirstMatchingDirectoryWins ==
    pc = "r_done" =>
        LET p == input_files_raw[1]
            k == EarliestMatch(p, work_dirs)
            d == work_dirs[k]
        IN  ~(isabs(p) /\ isfile(p)) =>
              /\ k > 0 =>
                    input_files[1] = IF isfile(join(d, p)) THEN join(d, p)
                                     ELSE AddTxt(join(d, p))
              /\ splitext1(p) # "" => splitext1(input_files[1]) = splitext1(p)

\* C2 witness: the first directory holds only x.txt, the second holds x, and
\* the identifier x resolved into the first directory.
C2_Witness ==
    /\ pc = "r_done"
    /\ input_files_raw = <<Path("", "x", "")>>
    /\ work_dirs = <<"/B", "/A">>
    /\ Path("/B", "x", "") \notin DOMAIN fs
    /\ Path("/B", "x", ".txt") \in DOMAIN fs
    /\ Path("/A", "x", "") \in DOMAIN fs
    /\ input_files = <<Path("/B", "x", ".txt")>>

-----------------------------------------------------------------------------
(* The assemblers on their own: one call on drawn arguments *)

Contents ==
    { <<>>, <<"hello">>, <<"hello", NL>>,
      <<START_SEP, " ", "x.txt", NL, "hello">>,
      <<"hello", NL, END_SEP, " ", "x.txt", NL>>,
      <<FILE_END_SEP, " ", "x.txt", NL>> }

CInputs == {Path("/A", "x", ".txt"), Path("/B", "x", ".txt"), Path("/A", "y", ".md"),
            Path("/A", "gone", ".txt")}
CHeaders == {Null, Path("", "build failed", ""), Path("/A", "header", ".txt")}
CRequests == {Null, Path("/A", "request", ".txt"), Path("/B", "request", ".txt")}

InitCombine ==
    /\ \E cx \in Contents, cy \in {<<"y">>, <<"y", NL, NL>>} :
          fs = ( Path("/A", "x", ".txt") :> cx
              @@ Path("/B", "x", ".txt") :> <<"b", NL>>
              @@ Path("/A", "y", ".md") :> cy
              @@ Path("/A", "header", ".txt") :> <<"from header file", NL>>
              @@ Path("/A", "request", ".txt") :> <<"do this", NL>> )
    /\ input_files \in SeqsUpTo(CInputs, MaxFiles)
    /\ \/ /\ pc = "combine"
          /\ \E h \in CHeaders, e \in BOOLEAN :
                args = [NoArgs EXCEPT !.header = h, !.error = e]
          /\ request_file_path \in CRequests
       \/ /\ pc = "s_combine"
          /\ args = NoArgs
          /\ request_file_path = Null
    /\ argv = args
    /\ exit_status = Running
    /\ input_dir_abs = Null /\ work_dirs = <<>>
    /\ codes = <<>> /\ mapping = <<>> /\ missing_codes = <<>>
    /\ input_files_raw = <<>>
    /\ outfile = NoOutput /\ outfile0 = NoOutput
    /\ sections = <<>> /\ resolve_bases = {} /\ idx = 0

NextCombine == Combine \/ ScriptCombine

SpecCombine == InitCombine /\ [][NextCombine]_vars

SectionTexts == [i \in 1..Len(sections) |-> sections[i].text]
FileSections == SelectSeq(sections, LAMBDA sec : sec.kind = "file")
AllExist(files) == \A i \in 1..Len(files) : isfile(files[i])

\* One delimiter pair labelled name around content, as the claim describes it.
DelimitedPair(start, end, name, content) ==
    <<start, " ", name, NL>> \o content \o <<NL, end, " ", name, NL, NL>>

PairsWritten(start, end) ==
    /\ outfile.exists
    /\ outfile.text = Flatten(SectionTexts)
    /\ Len(FileSections) = Len(input_files)
    /\ \A i \in 1..Len(input_files) :
          FileSections[i].text =
              DelimitedPair(start, end, basename(input_files[i]), fs[input_files[i]])

\* C3: for a non-empty list of existing files the finished output holds, after
\* the header and request blocks, exactly one START/END pair per input, in input
\* order, labelled with the input's base name and wrapping its exact content.
C3_OnePairPerInput ==
    (Len(input_files) > 0 /\ AllExist(input_files)) =>
        /\ pc = "done" => PairsWritten(START_SEP, END_SEP)
        /\ pc = "s_done" => PairsWritten(FILE_START_SEP, FILE_END_SEP)

\* C3 witness: two existing inputs of the same base name, the first holding
\* delimiter-like text, assembled by src/concat-files.py.
C3_Witness ==
    /\ pc = "done"
    /\ input_files = <<Path("/A", "x", ".txt"), Path("/B", "x", ".txt")>>
    /\ fs[Path("/A", "x", ".txt")] = <<"hello", NL, END_SEP, " ", "x.txt", NL>>
    /\ Len(FileSections) = 2

Rank(kind) == CASE kind = "header" -> 1 [] kind = "request" -> 2 [] kind = "file" -> 3

RECURSIVE StripDelimiterLines(_, _)
StripDelimiterLines(text, delims) ==
    IF text = <<>> THEN <<>>
    ELSE LET n == LineEnd(text)
             line == SubSeq(text, 1, n)
         IN  (IF line[1] \in delims THEN <<>> ELSE line)
                 \o StripDelimiterLines(SubSeq(text, n + 1, Len(text)), delims)

HasDelimiterLine(text, delims) ==
    \E i \in 1..Len(text) : text[i] \in delims /\ (i = 1 \/ text[i - 1] = NL)

Delims == IF pc = "s_done" THEN {FILE_START_SEP, FILE_END_SEP} ELSE {START_SEP, END_SEP}

SingleFileDefaults ==
    /\ pc \in {"done", "s_done"}
    /\ Len(input_files) = 1 /\ isfile(input_files[1])
    /\ ~Truthy(args.header) /\ ~Truthy(request_file_path)

\* C8 as stated: the output of a single existing file, without its delimiter
\* lines, is exactly the content of that file.
C8_RoundTripExact ==
    SingleFileDefaults =>
        StripDelimiterLines(outfile.text, Delims) = fs[input_files[1]]

\* C8 amended: the output of a single existing file none of whose lines begins
\* with a delimiter is, without its delimiter lines, the content of that file
\* followed by two newlines.
C8_RoundTripTwoNewlines ==
    (SingleFileDefaults /\ ~HasDelimiterLine(fs[input_files[1]], Delims)) =>
        StripDelimiterLines(outfile.text, Delims) = fs[input_files[1]] \o <<NL, NL>>

\* C8 witness: a single file holding "hello" was assembled with no header and
\* no request, and the stripped output is "hello" and two newlines.
C8_Witness ==
    /\ SingleFileDefaults
    /\ fs[input_files[1]] = <<"hello">>
    /\ StripDelimiterLines(outfile.text, Delims) = <<"hello", NL, NL>>

-----------------------------------------------------------------------------
(* Runs of src/concat-files.py: a command line and a file system *)

W_BA == <<NL, " ", "/gone", NL, "/B", " ", NL, "/A">>
W_None == <<"/gone", NL, NL>>
W_AB == <<"/A", NL, "/B", NL>>
W_A == <<"/A", NL>>

\* The work files: none; cwd; cwd listing nothing that exists, beside the
\* script's; the script's; the input directory's, beside cwd's.
WorkLayouts ==
    { <<>>,
      Path(CWD, "work", ".txt") :> W_BA,
      Path(CWD, "work", ".txt") :> W_None @@ Path(SCRIPT_DIR, "work", ".txt") :> W_AB,
      Path(SCRIPT_DIR, "work", ".txt") :> W_AB,
      Path("/in", "work", ".txt") :> W_A @@ Path(CWD, "work", ".txt") :> W_BA }

CodesLists ==
    { <<"K1", NL, "K2", NL>>,
      <<" ", "K3", NL, NL, "K1", NL, "K4", " ", NL, "K2">> }

Mappings ==
    { <<"K1", " ", "x", NL, "K2", " ", "y.md", NL, "lonely", NL,
        "K1", " ", " ", "/A/z.txt", NL>>,
      <<"K1", " ", "x", NL, "K2", " ", "y.md", NL, "K3", " ", "x", NL,
        "K4", " ", "nofile", NL>> }

\* A file that may be absent: the empty function, or the file with one of the texts.
Maybe(path, texts) == {<<>>} \cup {path :> t : t \in texts}

FixedFiles ==
       Path("/B", "request", ".txt") :> <<"request of B", NL>>
    @@ Path("/A", "req", ".txt") :> <<"req of A", NL>>
    @@ Path("/in", "request", ".txt") :> <<"request of in", NL>>
    @@ Path("/B", "y", ".md") :> <<"y of B">>
    @@ Path("/A", "z", ".txt") :> <<"z of A", NL>>
    @@ Path("/D", "b", ".txt") :> <<"b", NL>>
    @@ Path("/D", "a", ".txt") :> <<"a", NL>>
    @@ Path("/D", "c", ".md") :> <<"c", NL>>

ArgPaths == { <<>>, <<Path("", "x", "")>>, <<Path("/D", "", ""), Path("", "y", ".md")>> }

InitMain ==
    /\ \E w \in WorkLayouts,
          cl \in {<<>>} \cup CodesLists,
          m \in Maybe(Path("/B", "file-codes", ".txt"), Mappings),
          ax \in Maybe(Path("/A", "x", ".txt"), {<<"x of A", NL>>}),
          cx \in Maybe(Path(CWD, "x", ".txt"), {<<"x.txt of cwd">>})
                    \cup Maybe(Path(CWD, "x", ""), {<<"x of cwd">>}),
          h \in Maybe(Path("/in", "header", ".txt"), {<<"header of in", NL>>}) :
          fs = w @@ m @@ ax @@ cx @@ h @@ FixedFiles
                 @@ (IF cl = <<>> THEN <<>>
                     ELSE Path("/A", "codes", ".txt") :> cl
                              @@ Path("/in", "files", ".txt") :> cl)
    /\ \E i \in {Null, Path("/in", "", ""), Path("/gone", "", "")},
          c \in {Null, Path("", "codes", "")},
          ps \in ArgPaths,
          r \in {Null, Path("", "req", "")},
          he \in {<<Null, FALSE>>, <<Path("", "build failed", ""), FALSE>>,
                  <<Path("", "build failed", ""), TRUE>>} :
          argv = [NoArgs EXCEPT !.input_dir = i, !.codes = c, !.paths = ps,
                                !.request = r, !.header = he[1], !.error = he[2]]
    /\ args = argv
    /\ outfile0 \in {NoOutput, [exists |-> TRUE, text |-> <<"old", NL>>]}
    /\ outfile = outfile0
    /\ pc = "start"
    /\ exit_status = Running
    /\ input_dir_abs = Null /\ work_dirs = <<>> /\ request_file_path = Null
    /\ codes = <<>> /\ mapping = <<>> /\ missing_codes = <<>>
    /\ input_files_raw = <<>> /\ input_files = <<>>
    /\ sections = <<>> /\ resolve_bases = {} /\ idx = 0

Next == Main \/ Combine

Spec == InitMain /\ [][Next]_vars

-----------------------------------------------------------------------------
(* Properties of the runs *)

ExitPcs == {"exit_input_dir", "exit_no_mode", "exit_codes_list", "exit_mapping",
            "exit_missing_codes"}
CombinePcs == {"combine", "c_header", "c_request", "c_files", "done"}
OpenedPcs == {"c_header", "c_request", "c_files", "done"}

MappingFile == IF Truthy(args.mapping) THEN args.mapping ELSE DEFAULT_CODES_MAPPING_FILE
ExpectedSections ==
    (IF Truthy(args.header) THEN 1 ELSE 0)
        + (IF Truthy(request_file_path) /\ isfile(request_file_path) THEN 1 ELSE 0)
        + Len(input_files)

\* C1: a run ends with status 1 only at one of the five fatal errors, with
\* combine_files not called and the output file as it was before the run; a
\* run reaches combine_files only when none of the five holds; and a run that
\* reached combine_files ends with status 0 and every section written.
C1_FatalBeforeOutput ==
    /\ exit_status = EXIT_FAILURE =>
          pc \in ExitPcs /\ outfile = outfile0 /\ sections = <<>>
    /\ pc \in ExitPcs => exit_status = EXIT_FAILURE
    /\ pc \in CombinePcs =>
          /\ exit_status # EXIT_FAILURE
          /\ ~(Truthy(argv.input_dir) /\ ~isdir(abspath(argv.input_dir)))
          /\ args.paths # <<>> \/ Truthy(args.codes)
          /\ Truthy(args.codes) =>
                /\ isfile(resolve_file_paths(<<args.codes>>, work_dirs)[1])
                /\ isfile(resolve_file_paths(<<MappingFile>>, work_dirs)[1])
                /\ \A i \in 1..Len(codes) : codes[i] \in DOMAIN mapping
    /\ pc = "done" =>
          /\ exit_status = EXIT_OK
          /\ outfile.exists
          /\ outfile.text = Flatten(SectionTexts)
          /\ Len(sections) = ExpectedSections

\* C1 witness: a run over an existing output file ended at the missing-codes
\* error with that file untouched.
C1_Witness ==
    /\ pc = "exit_missing_codes"
    /\ exit_status = EXIT_FAILURE
    /\ outfile0.exists
    /\ outfile = outfile0

\* C5: when every code of the list is in the mapping the raw path list is the
\* mapping applied to the codes, in order; otherwise the run ends with status 1,
\* the codes printed are all the codes of the list that the mapping lacks, in
\* order, and nothing is resolved or assembled.
C5_CodesResolution ==
    /\ (pc \in CombinePcs /\ Truthy(args.codes)) =>
          /\ Len(input_files_raw) = Len(codes)
          /\ \A i \in 1..Len(codes) :
                /\ codes[i] \in DOMAIN mapping
                /\ input_files_raw[i] = PathOf(mapping[codes[i]])
    /\ pc = "exit_missing_codes" =>
          /\ missing_codes = SelectSeq(codes, LAMBDA c : c \notin DOMAIN mapping)
          /\ missing_codes # <<>>
          /\ exit_status = EXIT_FAILURE
          /\ input_files = <<>> /\ sections = <<>> /\ outfile = outfile0
    /\ pc \notin {"start", "find_work", "check_mode", "read_work", "find_request",
                 "inputs", "mapping", "lookup", "exit_missing_codes"}
          => missing_codes = <<>>

\* C5 witness: the list K3, K1, K4, K2 against a mapping of K1 and K2 only
\* ended the run with K3 and K4 reported.
C5_Witness ==
    /\ pc = "exit_missing_codes"
    /\ codes = <<"K3", "K1", "K4", "K2">>
    /\ DOMAIN mapping = {"K1", "K2"}
    /\ missing_codes = <<"K3", "K4">>

ModesGiven ==
    (IF argv.paths # <<>> THEN 1 ELSE 0) + (IF Truthy(argv.codes) THEN 1 ELSE 0)
        + (IF Truthy(argv.input_dir) THEN 1 ELSE 0)

\* C7: no run given more than one of --paths, --codes and --input-dir gets as
\* far as opening the output file.
C7_ModesMutuallyExclusive ==
    ModesGiven > 1 => pc \notin OpenedPcs

\* The directories a work file lists that exist, in the order of its lines.
ListedDirs(work_file) ==
    IF ~isfile(work_file) THEN <<>>
    ELSE LET lines == FileLines(fs[abspath(work_file)])
         IN  SelectSeq([i \in 1..Len(lines) |-> Str(strip(lines[i]))],
                       LAMBDA d : d \in ExistingDirs)

\* C9: every call of resolve_file_paths gets the work-directory list, which is
\* never empty: the existing directories the work file lists, in its order, or
\* the current directory alone when there are none.
C9_BaseDirsNeverEmpty ==
    /\ \A b \in resolve_bases : b # <<>> /\ b = work_dirs
    /\ pc \in {"find_request", "inputs", "mapping", "lookup"} \cup CombinePcs =>
          work_dirs = IF ListedDirs(args.work) = <<>> THEN <<CWD>>
                      ELSE ListedDirs(args.work)

\* C9 witness: the work file exists and lists no existing directory, and the
\* inputs were resolved against the current directory alone.
C9_Witness ==
    /\ pc = "done"
    /\ isfile(args.work)
    /\ ListedDirs(args.work) = <<>>
    /\ resolve_bases = {<<CWD>>}

InputDirMode == Truthy(argv.input_dir) /\ isdir(abspath(argv.input_dir))

AbsentFromWorkDirs(raw) ==
    /\ splitext1(raw) = ""
    /\ \A k \in 1..Len(work_dirs) :
          /\ ~isfile(join(work_dirs[k], raw))
          /\ ~isfile(AddTxt(join(work_dirs[k], raw)))

AbsentFromCwd(raw) == ~isfile(abspath(raw)) /\ ~isfile(AddTxt(abspath(raw)))

PlaceholderBlock(raw) ==
    <<START_SEP, " ", basename(raw), NL,
      "[Warning: file '", PathString(Path(CWD, raw.stem, raw.ext)), "' not found]", NL,
      NL, END_SEP, " ", basename(raw), NL, NL>>

\* C4 as stated: an identifier with no extension that no work directory holds,
\* plain or with ".txt", gets the placeholder block and the run succeeds.
C4_PlaceholderWhenAbsentFromWorkDirs ==
    pc = "done" =>
        \A i \in 1..Len(input_files_raw) :
            AbsentFromWorkDirs(input_files_raw[i]) =>
                /\ exit_status = EXIT_OK /\ outfile.exists
                /\ Len(FileSections) = Len(input_files_raw)
                /\ FileSections[i].text = PlaceholderBlock(input_files_raw[i])

\* C4 amended: an identifier with no extension that neither a work directory
\* nor the current directory holds, plain or with ".txt", resolves to its path
\* under the current directory, gets the placeholder block between its START
\* and END lines, and the run writes every block and succeeds.
C4_PlaceholderWhenAbsentEverywhere ==
    pc = "done" =>
        \A i \in 1..Len(input_files_raw) :
            (AbsentFromWorkDirs(input_files_raw[i]) /\ AbsentFromCwd(input_files_raw[i])) =>
                /\ exit_status = EXIT_OK /\ outfile.exists
                /\ outfile.text = Flatten(SectionTexts)
                /\ Len(FileSections) = Len(input_files_raw)
                /\ input_files[i] = Path(CWD, input_files_raw[i].stem, "")
                /\ FileSections[i].text = PlaceholderBlock(input_files_raw[i])

\* C4 witness: the third of four codes maps to "nofile", found nowhere; its
\* block holds the placeholder and the fourth block was written after it.
C4_Witness ==
    /\ pc = "done"
    /\ Len(input_files_raw) = 4
    /\ input_files_raw[3] = Path("", "nofile", "")
    /\ AbsentFromWorkDirs(input_files_raw[3]) /\ AbsentFromCwd(input_files_raw[3])
    /\ Len(FileSections) = 4
    /\ FileSections[3].text[6] = "/cwd/nofile"
    /\ FileSections[4].text[3] = "y.md"

====
